---- MODULE Spec2Model ----
(***************************************************************************)
(* SystemMonitor of python_monitor/core/monitor.py: the polling loop, the  *)
(* evaluation cycle (check_system), threshold evaluation and the alert /   *)
(* remediation handling, with the notification and remediation ports as    *)
(* nondeterministic collaborators.                                         *)
(*                                                                         *)
(* Spec is the monitor driven so that evaluation cycles do not overlap:    *)
(* start() runs its initial cycle on the calling thread before it launches *)
(* the polling thread, the polling thread runs one cycle at a time, stop() *)
(* may arrive at any moment, and start() is called again only once the     *)
(* previous polling thread has terminated.                                 *)
(***************************************************************************)
EXTENDS Integers, Sequences, FiniteSets, TLC

(* ------------------------------ bounds -------------------------------- *)

\* Evaluation cycles explored (caps check_count).
MaxChecks == 3

\* Ticks of the clock explored.
MaxTime == 2

(* ------------------------- program constants -------------------------- *)

cpu_threshold == 90
memory_threshold == 90
disk_threshold == 90

Metrics == {"CPU", "Memory", "Disk"}

\* Sampled percentages: equal to and above the default thresholds.
Percent == {90, 91}

\* The thresholds ConfigLoader uses when neither file nor environment sets them.
DefaultThresholds ==
    [cpu_threshold |-> cpu_threshold,
     memory_threshold |-> memory_threshold,
     disk_threshold |-> disk_threshold]

\* issue_type = f"high_{alert.metric_name.lower()}"
IssueType(m) ==
    CASE m = "CPU" -> "high_cpu"
      [] m = "Memory" -> "high_memory"
      [] m = "Disk" -> "high_disk"

\* What a SlackClient.send_* call can do: return True, return False, raise.
NotifyOutcomes == {"ok", "false", "raise"}

\* What RemediationClient.trigger_remediation can do as seen by the monitor:
\* return truthy, return falsy, raise utils RemediationError, raise utils
\* ServiceUnavailableError, raise anything else (timeout, client-local types).
RemediateOutcomes ==
    {"true", "false", "RemediationError", "ServiceUnavailableError", "Exception"}

NoMetrics == [m \in Metrics |-> 0]

(* ------------------------------ state --------------------------------- *)

VARIABLES
    config,             \* self.config.monitoring: the three thresholds
    running,            \* self._running
    stop_event,         \* self._stop_event
    jobs,               \* number of jobs registered with schedule
    check_count,        \* self.check_count
    alert_count,        \* self.alert_count
    remediation_count,  \* self.remediation_count
    mpc,                \* position of the caller of start()
    spc,                \* position of the caller of stop()
    ppc,                \* position of the polling thread (_monitoring_loop)
    owner,              \* who runs the cycle in progress: "none", "start", "poll"
    cpc,                \* position inside _check_system_wrapper / check_system
    metrics,            \* the SystemMetrics sample of the cycle in progress
    alerts,             \* alerts_triggered of _check_thresholds
    idx,                \* index of the alert being handled (for alert in ...)
    success,            \* result of trigger_remediation for the current alert
    exc,                \* exception being handled in _trigger_remediation
    log,                \* port calls made for the current alert, in call order
    handled,            \* alerts of this cycle whose handling has returned
    obs,                \* observations of the cycle in progress (history)
    notes,              \* startup / shutdown notifications of the current run
    invocations,        \* number of calls of check_system so far (history)
    tpc,                \* position of another thread calling start() or stop()
    gpc,                \* position of a thread inside get_status()
    snap,               \* the values get_status() has read so far
    rc,                 \* a call of RemediationClient.trigger_remediation
    now,                \* datetime.now(), in ticks since the monitor was constructed
    start_time,         \* self.start_time
    parked              \* the polling thread that is not in ppc and the cycle
                        \* variables, when two polling threads are alive

vars == <<config, running, stop_event, jobs, check_count, alert_count, remediation_count,
          mpc, spc, ppc, owner, cpc, metrics, alerts, idx, success, exc, log,
          handled, obs, notes, invocations, tpc, gpc, snap, rc, now, start_time,
          parked>>

\* The clock and the time the monitor keeps.
clock == <<now, start_time>>

\* What only callers on other threads, the remediation client and the passing
\* of time change.
otherVars == <<tpc, gpc, snap, rc, clock, parked>>

lifecycleVars == <<config, running, stop_event, jobs, mpc, spc, ppc, notes, invocations,
                   otherVars>>
counterVars == <<check_count, alert_count, remediation_count>>
cycleVars == <<owner, cpc, metrics, alerts, idx, success, exc, log, handled, obs>>

\* History of one cycle, cleared when the cycle returns.
NoObs ==
    [sample_failed |-> FALSE,  \* _gather_metrics raised
     check0 |-> 0,             \* the counters when the cycle began
     alert0 |-> 0,
     rem0 |-> 0,
     ev_rem0 |-> 0,            \* remediation_count when the current alert began
     alert_raised |-> FALSE,   \* a send_alert of this cycle raised
     fault |-> FALSE,          \* a trigger_remediation of this cycle raised
     post_raised |-> FALSE,    \* a notification after a remediation attempt raised
     escaped |-> FALSE,        \* an exception left check_system
     wrapper_raised |-> FALSE] \* the wrapper's own error notification raised

\* The other thread is outside start() and stop().
NoThread == [pc |-> "idle", at |-> 0]

\* get_status() has read nothing yet.
NoSnap == [check_count |-> 0, alert_count |-> 0, remediation_count |-> 0, quiet |-> TRUE]

\* No second polling thread.
NoContext ==
    [role |-> "none", ppc |-> "none", owner |-> "none", cpc |-> "idle",
     metrics |-> NoMetrics, alerts |-> <<>>, idx |-> 0, success |-> "none",
     exc |-> "none", log |-> <<>>, handled |-> <<>>, obs |-> NoObs]

\* No call of the remediation client is in progress.
NoCall ==
    [pc |-> "idle", issue |-> "none", context |-> "none", posts |-> <<>>,
     result |-> "none"]

Init ==
    /\ config = DefaultThresholds
    /\ running = FALSE
    /\ stop_event = FALSE
    /\ jobs = 0
    /\ check_count = 0
    /\ alert_count = 0
    /\ remediation_count = 0
    /\ mpc = "idle"
    /\ spc = "idle"
    /\ ppc = "none"
    /\ owner = "none"
    /\ cpc = "idle"
    /\ metrics = NoMetrics
    /\ alerts = <<>>
    /\ idx = 0
    /\ success = "none"
    /\ exc = "none"
    /\ log = <<>>
    /\ handled = <<>>
    /\ obs = NoObs
    /\ notes = <<>>
    /\ invocations = 0
    /\ tpc = NoThread
    /\ gpc = "idle"
    /\ snap = NoSnap
    /\ rc = NoCall
    /\ now = 0
    /\ start_time = 0
    /\ parked = NoContext

(* ------------------------- the evaluation cycle ------------------------ *)

\* One port call: the client method, its message (kind, subject), whether it raised.
Call(name, text, r) == [call |-> name, text |-> text, raised |-> (r = "raise")]

\* The calls of log made through client method name.
Calls(name) == SelectSeq(log, LAMBDA c : c.call = name)

\* The alert being handled by the for loop of _check_thresholds.
Current == alerts[idx]

\* Variant: check_system does not count the check.
CheckSystem_Uncounted ==
    /\ cpc = "call"
    /\ obs' = [NoObs EXCEPT !.check0 = check_count, !.alert0 = alert_count,
                            !.rem0 = remediation_count]
    /\ cpc' = "gather"
    /\ UNCHANGED <<lifecycleVars, counterVars, owner, metrics,
                   alerts, idx, success, exc, log, handled>>

\* check_system entry: self.check_count += 1.
CheckSystem ==
    /\ cpc = "call"
    /\ check_count' = check_count + 1
    /\ obs' = [NoObs EXCEPT !.check0 = check_count, !.alert0 = alert_count,
                            !.rem0 = remediation_count]
    /\ cpc' = "gather"
    /\ UNCHANGED <<lifecycleVars, alert_count, remediation_count, owner, metrics,
                   alerts, idx, success, exc, log, handled>>

\* _gather_metrics: a sample, or MonitoringError, which check_system re-raises
\* as MonitoringError into _check_system_wrapper.
Gather(values) ==
    /\ cpc = "gather"
    /\ \/ \E sample \in [Metrics -> values] :
            /\ metrics' = sample
            /\ cpc' = "thresholds"
            /\ UNCHANGED obs
       \/ /\ cpc' = "wrapper_except"
          /\ obs' = [obs EXCEPT !.sample_failed = TRUE, !.escaped = TRUE]
          /\ UNCHANGED metrics
    /\ UNCHANGED <<lifecycleVars, counterVars, owner, alerts, idx, success, exc, log,
                   handled>>

GatherMetrics == Gather(Percent)

\* The three strict comparisons of _check_thresholds, appended in CPU, Memory,
\* Disk order.
\* Variant: the Disk comparison is made first and CPU last.
AlertsTriggered_Reversed(ms, cfg) ==
    LET cpu == IF ms["CPU"] > cfg.cpu_threshold THEN <<"CPU">> ELSE <<>>
        mem == IF ms["Memory"] > cfg.memory_threshold THEN <<"Memory">> ELSE <<>>
        dsk == IF ms["Disk"] > cfg.disk_threshold THEN <<"Disk">> ELSE <<>>
    IN  dsk \o mem \o cpu

\* Variant: the CPU comparison is >= instead of >.
AlertsTriggered_AtLeast(ms, cfg) ==
    LET cpu == IF ms["CPU"] >= cfg.cpu_threshold THEN <<"CPU">> ELSE <<>>
        mem == IF ms["Memory"] > cfg.memory_threshold THEN <<"Memory">> ELSE <<>>
        dsk == IF ms["Disk"] > cfg.disk_threshold THEN <<"Disk">> ELSE <<>>
    IN  cpu \o mem \o dsk

AlertsTriggered(ms, cfg) ==
    LET cpu == IF ms["CPU"] > cfg.cpu_threshold THEN <<"CPU">> ELSE <<>>
        mem == IF ms["Memory"] > cfg.memory_threshold THEN <<"Memory">> ELSE <<>>
        dsk == IF ms["Disk"] > cfg.disk_threshold THEN <<"Disk">> ELSE <<>>
    IN  cpu \o mem \o dsk

CheckThresholds ==
    /\ cpc = "thresholds"
    /\ alerts' = AlertsTriggered(metrics, config)
    /\ idx' = 1
    /\ cpc' = "for"
    /\ UNCHANGED <<lifecycleVars, counterVars, owner, metrics, success, exc, log,
                   handled, obs>>

\* _handle_threshold_alert entry: self.alert_count += 1.
\* Variant: the alert is handled without counting it.
HandleThresholdAlert_Uncounted ==
    /\ cpc = "for"
    /\ idx <= Len(alerts)
    /\ obs' = [obs EXCEPT !.ev_rem0 = remediation_count]
    /\ cpc' = "send_alert"
    /\ UNCHANGED <<lifecycleVars, counterVars, owner, metrics,
                   alerts, idx, success, exc, log, handled>>

HandleThresholdAlert ==
    /\ cpc = "for"
    /\ idx <= Len(alerts)
    /\ alert_count' = alert_count + 1
    /\ obs' = [obs EXCEPT !.ev_rem0 = remediation_count]
    /\ cpc' = "send_alert"
    /\ UNCHANGED <<lifecycleVars, check_count, remediation_count, owner, metrics,
                   alerts, idx, success, exc, log, handled>>

\* slack_client.send_alert(message, severity="warning") inside try/except.
SendAlert ==
    /\ cpc = "send_alert"
    /\ \E r \in NotifyOutcomes :
          /\ log' = Append(log, Call("send_alert", <<"warning", Current>>, r))
          /\ obs' = [obs EXCEPT !.alert_raised = @ \/ (r = "raise")]
    /\ cpc' = "remediate"
    /\ UNCHANGED <<lifecycleVars, counterVars, owner, metrics, alerts, idx, success,
                   exc, handled>>

\* success = self.remediation_client.trigger_remediation(issue_type, context)
\* Variant: any returned value, truthy or not, is taken as success.
TriggerRemediation_AnyResult ==
    /\ cpc = "remediate"
    /\ \E r \in RemediateOutcomes :
          /\ log' = Append(log, [call |-> "trigger_remediation",
                                 text |-> <<"request", IssueType(Current)>>,
                                 raised |-> (r \notin {"true", "false"})])
          /\ success' = IF r \in {"true", "false"} THEN r ELSE "none"
          /\ exc' = IF r \in {"true", "false"} THEN "none" ELSE r
          /\ cpc' = CASE r \in {"true", "false"} -> "count"
                      [] OTHER -> "except"
          /\ obs' = [obs EXCEPT !.fault = @ \/ (r \notin {"true", "false"})]
    /\ UNCHANGED <<lifecycleVars, counterVars, owner, metrics, alerts, idx, handled>>

TriggerRemediation ==
    /\ cpc = "remediate"
    /\ \E r \in RemediateOutcomes :
          /\ log' = Append(log, [call |-> "trigger_remediation",
                                 text |-> <<"request", IssueType(Current)>>,
                                 raised |-> (r \notin {"true", "false"})])
          /\ success' = IF r \in {"true", "false"} THEN r ELSE "none"
          /\ exc' = IF r \in {"true", "false"} THEN "none" ELSE r
          /\ cpc' = CASE r = "true" -> "count"
                      [] r = "false" -> "send_failure"
                      [] OTHER -> "except"
          /\ obs' = [obs EXCEPT !.fault = @ \/ (r \notin {"true", "false"})]
    /\ UNCHANGED <<lifecycleVars, counterVars, owner, metrics, alerts, idx, handled>>

\* if success: self.remediation_count += 1
CountRemediation ==
    /\ cpc = "count"
    /\ remediation_count' = remediation_count + 1
    /\ cpc' = "send_success"
    /\ UNCHANGED <<lifecycleVars, check_count, alert_count, owner, metrics, alerts,
                   idx, success, exc, log, handled, obs>>

\* A notification made inside the try block of _trigger_remediation: its
\* exception is caught by the "except Exception" clause of the same try.
NotifyInTry(r) ==
    /\ obs' = [obs EXCEPT !.post_raised = @ \/ (r = "raise")]
    /\ exc' = IF r = "raise" THEN "Exception" ELSE exc
    /\ cpc' = IF r = "raise" THEN "except" ELSE "handled"

\* slack_client.send_success_message("Remediation triggered for ...")
SendSuccess ==
    /\ cpc = "send_success"
    /\ \E r \in NotifyOutcomes :
          /\ log' = Append(log, Call("send_success_message", <<"triggered", IssueType(Current)>>, r))
          /\ NotifyInTry(r)
    /\ UNCHANGED <<lifecycleVars, counterVars, owner, metrics, alerts, idx, success,
                   handled>>

\* else: slack_client.send_error_message("Failed to trigger remediation for ...")
SendFailure ==
    /\ cpc = "send_failure"
    /\ \E r \in NotifyOutcomes :
          /\ log' = Append(log, Call("send_error_message", <<"failed_to_trigger", IssueType(Current)>>, r))
          /\ NotifyInTry(r)
    /\ UNCHANGED <<lifecycleVars, counterVars, owner, metrics, alerts, idx, success,
                   handled>>

\* The error_msg built by the except clause that catches exception kind e.
HandlerText(e) ==
    CASE e = "RemediationError" -> "remediation_failed"
      [] e = "ServiceUnavailableError" -> "service_unavailable"
      [] OTHER -> "unexpected_error"

\* A notification made inside an except clause of _trigger_remediation: nothing
\* catches its exception before check_system, which re-raises MonitoringError.
NotifyInHandler(r) ==
    /\ obs' = [obs EXCEPT !.post_raised = @ \/ (r = "raise"),
                          !.escaped = @ \/ (r = "raise")]
    /\ cpc' = IF r = "raise" THEN "wrapper_except" ELSE "handled"

\* except RemediationError / ServiceUnavailableError / Exception:
\*     self.slack_client.send_error_message(error_msg)
ExceptHandler ==
    /\ cpc = "except"
    /\ \E r \in NotifyOutcomes :
          /\ log' = Append(log, Call("send_error_message", <<HandlerText(exc), IssueType(Current)>>, r))
          /\ NotifyInHandler(r)
    /\ UNCHANGED <<lifecycleVars, counterVars, owner, metrics, alerts, idx, success,
                   exc, handled>>

\* _handle_threshold_alert returns: the for loop takes the next alert.
NextAlert ==
    /\ cpc = "handled"
    /\ handled' = Append(handled, [metric |-> Current,
                                   notified |-> Len(Calls("send_alert")),
                                   remediated |-> Len(Calls("trigger_remediation"))])
    /\ idx' = idx + 1
    /\ log' = <<>>
    /\ success' = "none"
    /\ exc' = "none"
    /\ cpc' = "for"
    /\ UNCHANGED <<lifecycleVars, counterVars, owner, metrics, alerts, obs>>

\* The for loop is exhausted: check_system returns the metrics.
CheckSystemReturn ==
    /\ cpc = "for"
    /\ idx > Len(alerts)
    /\ cpc' = "done"
    /\ UNCHANGED <<lifecycleVars, counterVars, owner, metrics, alerts, idx, success,
                   exc, log, handled, obs>>

\* _check_system_wrapper's except clause: send_error_message inside try/except/pass.
\* Variant: the error notification is not guarded, so that when it raises the
\* exception leaves the wrapper and ends the thread that ran the job.
WrapperExcept_Unguarded ==
    /\ cpc = "wrapper_except"
    /\ \E r \in NotifyOutcomes :
          /\ obs' = [obs EXCEPT !.wrapper_raised = (r = "raise")]
          /\ ppc' = IF r = "raise" /\ owner = "poll" THEN "exited" ELSE ppc
    /\ cpc' = "done"
    /\ UNCHANGED <<config, otherVars, notes, invocations, running, stop_event, jobs, mpc,
                   spc, counterVars, owner, metrics, alerts, idx, success, exc, log,
                   handled>>

WrapperExcept ==
    /\ cpc = "wrapper_except"
    /\ \E r \in NotifyOutcomes :
          obs' = [obs EXCEPT !.wrapper_raised = (r = "raise")]
    /\ cpc' = "done"
    /\ UNCHANGED <<lifecycleVars, counterVars, owner, metrics, alerts, idx, success,
                   exc, log, handled>>

\* _check_system_wrapper returns to whoever called it.
WrapperReturn ==
    /\ cpc = "done"
    /\ \/ owner = "start" /\ mpc' = "launch" /\ UNCHANGED ppc
       \/ owner = "poll" /\ ppc' = "loop" /\ UNCHANGED mpc
    /\ owner' = "none"
    /\ cpc' = "idle"
    /\ metrics' = NoMetrics
    /\ alerts' = <<>>
    /\ idx' = 0
    /\ success' = "none"
    /\ exc' = "none"
    /\ log' = <<>>
    /\ handled' = <<>>
    /\ obs' = NoObs
    /\ UNCHANGED <<config, otherVars, notes, invocations, running, stop_event, jobs, spc,
                   counterVars>>

(* ------------------------------ lifecycle ------------------------------ *)

\* Variant: start() begins a run with fresh alert and remediation counters.
Start_FreshCounters ==
    /\ mpc = "idle"
    /\ ~running
    /\ ppc \in {"none", "exited"}
    /\ check_count < MaxChecks
    /\ running' = TRUE
    /\ stop_event' = FALSE
    /\ jobs' = jobs + 1
    /\ mpc' = "initial"
    /\ owner' = "start"
    /\ cpc' = "call"
    /\ invocations' = invocations + 1
    /\ notes' = <<>>
    /\ spc' = IF spc = "join" THEN "join_earlier" ELSE spc
    /\ alert_count' = 0
    /\ remediation_count' = 0
    /\ UNCHANGED <<config, otherVars, ppc, check_count, metrics, alerts, idx, success,
                   exc, log, handled, obs>>

\* start() from a stopped monitor, up to the call of the initial check.
Start ==
    /\ mpc = "idle"
    /\ ~running
    /\ ppc \in {"none", "exited"}
    /\ check_count < MaxChecks
    /\ running' = TRUE
    /\ stop_event' = FALSE
    /\ jobs' = jobs + 1
    /\ mpc' = "initial"
    /\ owner' = "start"
    /\ cpc' = "call"
    /\ invocations' = invocations + 1
    /\ notes' = <<>>
    /\ spc' = IF spc = "join" THEN "join_earlier" ELSE spc
    /\ UNCHANGED <<config, otherVars, ppc, counterVars, metrics, alerts, idx, success,
                   exc, log, handled, obs>>

\* self._monitor_thread = threading.Thread(...); self._monitor_thread.start();
\* then the startup notification, inside try: it returns, or it raises and the
\* except clause is entered.
StartThread ==
    /\ mpc = "launch"
    /\ ppc' = "loop"
    /\ \E r \in NotifyOutcomes :
          mpc' = IF r = "raise" THEN "startup_except" ELSE "keep_alive"
    /\ notes' = Append(notes, "startup")
    /\ UNCHANGED <<config, otherVars, invocations, running, stop_event, jobs, spc,
                   counterVars, cycleVars>>

\* Variant: the failure of the startup notification leaves start().
StartupExcept_Propagates ==
    /\ mpc = "startup_except"
    /\ mpc' = "idle"
    /\ UNCHANGED <<config, otherVars, notes, invocations, running, stop_event, jobs, spc,
                   ppc, counterVars, cycleVars>>

\* except Exception as e: self.logger.warning("Failed to send startup
\* notification"); start() goes on to _keep_alive().
StartupExcept ==
    /\ mpc = "startup_except"
    /\ mpc' = "keep_alive"
    /\ UNCHANGED <<config, otherVars, notes, invocations, running, stop_event, jobs, spc,
                   ppc, counterVars, cycleVars>>

\* _keep_alive: while self._running: time.sleep(1)
KeepAlive ==
    /\ mpc = "keep_alive"
    /\ ~running
    /\ mpc' = "idle"
    /\ UNCHANGED <<config, otherVars, notes, invocations, running, stop_event, jobs, spc,
                   ppc, counterVars, cycleVars>>

\* _monitoring_loop: the while test, then schedule.run_pending() with a due job.
MonitoringLoop ==
    /\ ppc = "loop"
    /\ IF running /\ ~stop_event
       THEN /\ jobs > 0
            /\ check_count < MaxChecks
            /\ ppc' = "job"
            /\ owner' = "poll"
            /\ cpc' = "call"
            /\ invocations' = invocations + 1
       ELSE /\ ppc' = "exited"
            /\ UNCHANGED <<owner, cpc, invocations>>
    /\ UNCHANGED <<config, otherVars, notes, running, stop_event, jobs, mpc, spc,
                   counterVars, metrics, alerts, idx, success, exc, log, handled, obs>>

\* Variant: stop() without schedule.clear().
Stop_KeepSchedule ==
    /\ spc = "idle"
    /\ running
    /\ running' = FALSE
    /\ stop_event' = TRUE
    /\ spc' = "join"
    /\ UNCHANGED <<config, otherVars, notes, invocations, jobs, mpc, ppc, counterVars,
                   cycleVars>>

\* stop() on a running monitor, up to the join.
Stop ==
    /\ spc = "idle"
    /\ running
    /\ running' = FALSE
    /\ stop_event' = TRUE
    /\ jobs' = 0
    /\ spc' = "join"
    /\ UNCHANGED <<config, otherVars, notes, invocations, mpc, ppc, counterVars, cycleVars>>

\* Variant: stop() joins the polling thread without a timeout.
StopJoin_WaitsForThread ==
    /\ spc \in {"join", "join_earlier"}
    /\ ppc \in {"none", "exited"}
    /\ \E r \in NotifyOutcomes :
          spc' = IF r = "raise" THEN "shutdown_except" ELSE "idle"
    /\ notes' = IF spc = "join" THEN Append(notes, "shutdown") ELSE notes
    /\ UNCHANGED <<config, otherVars, invocations, running, stop_event, jobs, mpc, ppc,
                   counterVars, cycleVars>>

\* self._monitor_thread.join(timeout=5) returns (the thread ended, or the wait
\* timed out); then the shutdown notification, inside try/except. A stop() that
\* start() has overtaken ("join_earlier") sends the notification of the run it
\* stopped, not of the current one.
StopJoin ==
    /\ spc \in {"join", "join_earlier"}
    /\ \E r \in NotifyOutcomes :
          spc' = IF r = "raise" THEN "shutdown_except" ELSE "idle"
    /\ notes' = IF spc = "join" THEN Append(notes, "shutdown") ELSE notes
    /\ UNCHANGED <<config, otherVars, invocations, running, stop_event, jobs, mpc, ppc,
                   counterVars, cycleVars>>

\* except Exception as e: self.logger.warning("Failed to send shutdown
\* notification"); stop() returns.
ShutdownExcept ==
    /\ spc = "shutdown_except"
    /\ spc' = "idle"
    /\ UNCHANGED <<config, otherVars, notes, invocations, running, stop_event, jobs, mpc,
                   ppc, counterVars, cycleVars>>

Cycle ==
    \/ CheckSystem
    \/ GatherMetrics
    \/ CheckThresholds
    \/ HandleThresholdAlert
    \/ SendAlert
    \/ TriggerRemediation
    \/ CountRemediation
    \/ SendSuccess
    \/ SendFailure
    \/ ExceptHandler
    \/ NextAlert
    \/ CheckSystemReturn
    \/ WrapperExcept
    \/ WrapperReturn

\* An except clause of start() or stop() is being executed. It only logs: it
\* reads and writes nothing another thread sees.
ExceptClause == mpc = "startup_except" \/ spc = "shutdown_except"

\* The steps of the monitor. An except clause of start() or stop() commutes
\* with every step of the other threads, so Spec takes it before any of them;
\* LifecycleSpec below interleaves it freely.
Next ==
    \/ StartupExcept
    \/ ShutdownExcept
    \/ /\ ~ExceptClause
       /\ \/ Cycle
          \/ Start
          \/ StartThread
          \/ KeepAlive
          \/ MonitoringLoop
          \/ Stop
          \/ StopJoin

Spec == Init /\ [][Next]_vars

(* ------------------- start() and stop() from another thread ----------- *)

\* What the monitor's own threads change.
monitorVars == <<config, running, stop_event, jobs, mpc, spc, ppc, counterVars, cycleVars,
                 notes, invocations>>

\* Variant: start() without the test of self._running registers the job again.
OtherStart_Unchecked ==
    /\ tpc.pc = "idle"
    /\ running
    /\ jobs' = jobs + 1
    /\ tpc' = [pc |-> "start_returned", at |-> invocations]
    /\ UNCHANGED <<config, running, stop_event, mpc, spc, ppc, counterVars, cycleVars,
                   notes, invocations, gpc, snap, rc, clock, parked>>

\* start() on a monitor that is running: if self._running: warning; return.
OtherStart ==
    /\ tpc.pc = "idle"
    /\ running
    /\ tpc' = [pc |-> "start_returned", at |-> invocations]
    /\ UNCHANGED <<monitorVars, gpc, snap, rc, clock, parked>>

\* stop(): if not self._running: return.
OtherStopCheck ==
    /\ tpc.pc = "idle"
    /\ tpc' = [pc |-> IF running THEN "stop_set" ELSE "stop_returned", at |-> invocations]
    /\ UNCHANGED <<monitorVars, gpc, snap, rc, clock, parked>>

\* stop(): logger.info(...), self._running = False, self._stop_event.set(),
\* schedule.clear().
OtherStopSet ==
    /\ tpc.pc = "stop_set"
    /\ running' = FALSE
    /\ stop_event' = TRUE
    /\ jobs' = 0
    /\ tpc' = [pc |-> "stop_join", at |-> invocations]
    /\ UNCHANGED <<config, mpc, spc, ppc, counterVars, cycleVars, notes, invocations,
                   gpc, snap, rc, clock, parked>>

\* stop(): the join, then the shutdown notification inside try/except. It is the
\* notification of the current run unless start() was called since the flag was
\* cleared.
OtherStopJoin ==
    /\ tpc.pc = "stop_join"
    /\ \E r \in NotifyOutcomes : tpc' = NoThread
    /\ notes' = IF tpc.at = invocations THEN Append(notes, "shutdown") ELSE notes
    /\ UNCHANGED <<config, running, stop_event, jobs, mpc, spc, ppc, counterVars,
                   cycleVars, invocations, gpc, snap, rc, clock, parked>>

\* The call that changed nothing returns.
OtherReturn ==
    /\ tpc.pc \in {"start_returned", "stop_returned"}
    /\ tpc' = NoThread
    /\ UNCHANGED <<monitorVars, gpc, snap, rc, clock, parked>>

OtherThread ==
    \/ OtherStart
    \/ OtherStopCheck
    \/ OtherStopSet
    \/ OtherStopJoin
    \/ OtherReturn

\* Samples of a quiet system: every metric at its threshold, none above.
QuietPercent == {90}

QuietGatherMetrics == Gather(QuietPercent)

\* The cycle of a quiet system: the sample, or its failure, and no alert.
QuietCycle ==
    \/ CheckSystem
    \/ QuietGatherMetrics
    \/ CheckThresholds
    \/ CheckSystemReturn
    \/ WrapperExcept
    \/ WrapperReturn

ApiNext ==
    \/ QuietCycle
    \/ Start
    \/ StartThread
    \/ StartupExcept
    \/ KeepAlive
    \/ MonitoringLoop
    \/ Stop
    \/ StopJoin
    \/ ShutdownExcept
    \/ OtherThread

\* The monitor of a quiet system with a second thread calling start() and stop().
ApiSpec == Init /\ [][ApiNext]_vars

(* --------------------- get_status() from another thread --------------- *)

\* Variant: get_status() counts itself as a check.
GetStatusCall_Counting ==
    /\ gpc = "idle"
    /\ gpc' = "alert_count"
    /\ check_count' = check_count + 1
    /\ snap' = [NoSnap EXCEPT !.check_count = check_count, !.quiet = (cpc = "idle")]
    /\ UNCHANGED <<config, running, stop_event, jobs, mpc, spc, ppc, alert_count,
                   remediation_count, cycleVars, notes, invocations, tpc, rc, clock, parked>>

\* get_status() builds its dictionary field by field, without a lock. The call
\* begins: uptime, self._running, self.start_time, then self.check_count is read.
GetStatusCall ==
    /\ gpc = "idle"
    /\ gpc' = "alert_count"
    /\ snap' = [NoSnap EXCEPT !.check_count = check_count, !.quiet = (cpc = "idle")]
    /\ UNCHANGED <<monitorVars, tpc, rc, clock, parked>>

\* No cycle has run since the call began, as far as this read can tell.
StillQuiet == snap.quiet /\ cpc = "idle" /\ check_count = snap.check_count

\* "alert_count": self.alert_count
GetStatusAlertCount ==
    /\ gpc = "alert_count"
    /\ gpc' = "remediation_count"
    /\ snap' = [snap EXCEPT !.alert_count = alert_count, !.quiet = StillQuiet]
    /\ UNCHANGED <<monitorVars, tpc, rc, clock, parked>>

\* "remediation_count": self.remediation_count, then the config fields.
GetStatusRemediationCount ==
    /\ gpc = "remediation_count"
    /\ gpc' = "return"
    /\ snap' = [snap EXCEPT !.remediation_count = remediation_count, !.quiet = StillQuiet]
    /\ UNCHANGED <<monitorVars, tpc, rc, clock, parked>>

\* The dictionary is returned to the caller.
GetStatusReturn ==
    /\ gpc = "return"
    /\ gpc' = "idle"
    /\ snap' = NoSnap
    /\ UNCHANGED <<monitorVars, tpc, rc, clock, parked>>

GetStatus ==
    \/ GetStatusCall
    \/ GetStatusAlertCount
    \/ GetStatusRemediationCount
    \/ GetStatusReturn

\* A configuration that alerts on CPU alone: the other thresholds are at the
\* top of the range the loader accepts.
CpuOnlyThresholds ==
    [cpu_threshold |-> cpu_threshold, memory_threshold |-> 100, disk_threshold |-> 100]

\* Samples of a loaded system: every metric at 91 percent.
BusyPercent == {91}

BusyGatherMetrics == Gather(BusyPercent)

\* The cycle of a loaded system: the sample, or its failure, and its alerts.
BusyCycle ==
    \/ CheckSystem
    \/ BusyGatherMetrics
    \/ CheckThresholds
    \/ HandleThresholdAlert
    \/ SendAlert
    \/ TriggerRemediation
    \/ CountRemediation
    \/ SendSuccess
    \/ SendFailure
    \/ ExceptHandler
    \/ NextAlert
    \/ CheckSystemReturn
    \/ WrapperExcept
    \/ WrapperReturn

StatusInit ==
    /\ config = CpuOnlyThresholds
    /\ running = FALSE
    /\ stop_event = FALSE
    /\ jobs = 0
    /\ check_count = 0
    /\ alert_count = 0
    /\ remediation_count = 0
    /\ mpc = "idle"
    /\ spc = "idle"
    /\ ppc = "none"
    /\ owner = "none"
    /\ cpc = "idle"
    /\ metrics = NoMetrics
    /\ alerts = <<>>
    /\ idx = 0
    /\ success = "none"
    /\ exc = "none"
    /\ log = <<>>
    /\ handled = <<>>
    /\ obs = NoObs
    /\ notes = <<>>
    /\ invocations = 0
    /\ tpc = NoThread
    /\ gpc = "idle"
    /\ snap = NoSnap
    /\ rc = NoCall
    /\ now = 0
    /\ start_time = 0
    /\ parked = NoContext

StatusNext ==
    \/ BusyCycle
    \/ Start
    \/ StartThread
    \/ StartupExcept
    \/ KeepAlive
    \/ MonitoringLoop
    \/ Stop
    \/ StopJoin
    \/ ShutdownExcept
    \/ GetStatus

\* The monitor of a loaded system, alerting on CPU, with a thread that calls
\* get_status().
StatusSpec == StatusInit /\ [][StatusNext]_vars

(* ------------------ RemediationClient.trigger_remediation -------------- *)

\* urls_to_try, in order: the new endpoint, then the legacy one.
UrlsToTry == <<"/api/remediation/execute", "/remediate">>

IssueTypes == {"high_cpu", "high_memory", "high_disk"}

\* The context argument: absent, or the alert's dictionary.
Contexts == {"none", "alert"}

\* Statuses for which response.raise_for_status() raises HTTPError.
ErrorStatuses == {400, 401, 404, 429, 500, 503}

\* What one session.post(...) followed by raise_for_status() and response.json()
\* can come to: a 200 response whose body says success, says failure or is not
\* JSON; an error status; or an exception of the transport.
PostOutcomes ==
    {[kind |-> "response", status |-> 200, body |-> b] :
        b \in {"success", "failure", "not_json"}}
    \cup {[kind |-> "response", status |-> c, body |-> "none"] : c \in ErrorStatuses}
    \cup {[kind |-> k, status |-> 0, body |-> "none"] :
            k \in {"Timeout", "ConnectionError", "RequestException"}}

\* bool(response) is response.ok: false for every status raise_for_status rejects.
ResponseTruthy(status) == status < 400

\* The outer "except requests.exceptions.HTTPError" clause:
\* status_code = e.response.status_code if e.response else 0, then the branches.
HttpErrorResult(status) ==
    LET status_code == IF ResponseTruthy(status) THEN status ELSE 0
    IN  CASE status_code = 400 -> "RemediationError"
          [] status_code = 404 -> "RemediationError"
          [] status_code = 503 -> "ServiceUnavailableError"
          [] OTHER -> "RemediationError"

\* Variant: a body that says success = false is handed back as the return value.
CallResult_ReturnsSuccessFlag(o) ==
    CASE o.kind = "Timeout" -> "EriTimeoutError"
      [] o.kind = "ConnectionError" -> "ServiceUnavailableError"
      [] o.kind = "RequestException" -> "RemediationError"
      [] o.status >= 400 -> HttpErrorResult(o.status)
      [] o.body = "failure" -> "False"
      [] OTHER -> "True"

\* What the call comes to when the attempt with outcome o ends it.
CallResult(o) ==
    CASE o.kind = "Timeout" -> "EriTimeoutError"
      [] o.kind = "ConnectionError" -> "ServiceUnavailableError"
      [] o.kind = "RequestException" -> "RemediationError"
      [] o.status >= 400 -> HttpErrorResult(o.status)
      [] o.body = "failure" -> "RemediationError"
      [] OTHER -> "True"

\* trigger_remediation(issue_type, context): the payload is built and the loop
\* over urls_to_try begins.
TriggerCall ==
    /\ rc.pc = "idle"
    /\ \E issue \in IssueTypes, context \in Contexts :
          rc' = [pc |-> "post", issue |-> issue, context |-> context, posts |-> <<>>,
                 result |-> "none"]
    /\ UNCHANGED <<monitorVars, tpc, gpc, snap, clock, parked>>

\* The attempt falls through to the next url: HTTPError with status 404 on
\* urls_to_try[0].
TryLegacy(url, o) == o.kind = "response" /\ o.status = 404 /\ url = UrlsToTry[1]

\* Variant: every HTTP error on the first url falls through to the legacy one.
Post_AnyHttpError ==
    /\ rc.pc = "post"
    /\ Len(rc.posts) < Len(UrlsToTry)
    /\ LET url == UrlsToTry[Len(rc.posts) + 1]
       IN  \E o \in PostOutcomes :
              rc' = IF o.kind = "response" /\ o.status >= 400 /\ url = UrlsToTry[1]
                    THEN [rc EXCEPT !.posts = Append(@, [url |-> url, outcome |-> o])]
                    ELSE [rc EXCEPT !.posts = Append(@, [url |-> url, outcome |-> o]),
                                    !.pc = "returned",
                                    !.result = CallResult(o)]
    /\ UNCHANGED <<monitorVars, tpc, gpc, snap, clock, parked>>

\* One iteration of "for url in urls_to_try": the POST and what follows from it.
Post ==
    /\ rc.pc = "post"
    /\ Len(rc.posts) < Len(UrlsToTry)
    /\ LET url == UrlsToTry[Len(rc.posts) + 1]
       IN  \E o \in PostOutcomes :
              rc' = IF TryLegacy(url, o)
                    THEN [rc EXCEPT !.posts = Append(@, [url |-> url, outcome |-> o])]
                    ELSE [rc EXCEPT !.posts = Append(@, [url |-> url, outcome |-> o]),
                                    !.pc = "returned",
                                    !.result = CallResult(o)]
    /\ UNCHANGED <<monitorVars, tpc, gpc, snap, clock, parked>>

\* The caller has the result; the client is ready for the next call.
TriggerReturn ==
    /\ rc.pc = "returned"
    /\ rc' = NoCall
    /\ UNCHANGED <<monitorVars, tpc, gpc, snap, clock, parked>>

ClientNext ==
    \/ TriggerCall
    \/ Post
    \/ TriggerReturn

\* Calls of the remediation client, one after the other.
ClientSpec == Init /\ [][ClientNext]_vars

LifecycleNext ==
    \/ BusyCycle
    \/ Start
    \/ StartThread
    \/ StartupExcept
    \/ KeepAlive
    \/ MonitoringLoop
    \/ Stop
    \/ StopJoin
    \/ ShutdownExcept

\* The monitor of a loaded system, alerting on CPU. The thread that calls
\* stop() is scheduled: join(timeout=5) returns and the notification call
\* returns or raises (the Slack client carries a timeout). Nothing is assumed
\* of the cycle in flight: it may stay in a port call for ever.
LifecycleSpec ==
    StatusInit /\ [][LifecycleNext]_vars /\ WF_vars(StopJoin) /\ WF_vars(ShutdownExcept)

(* ------------- start() while the previous polling thread lives -------- *)

\* The polling thread in ppc with the locals of its cycle, as thread role:
\* "previous" for the thread of the run that was stopped, "current" for the
\* threads of the run that start() began.
Context(role) ==
    [role |-> role, ppc |-> ppc, owner |-> owner, cpc |-> cpc, metrics |-> metrics,
     alerts |-> alerts, idx |-> idx, success |-> success, exc |-> exc, log |-> log,
     handled |-> handled, obs |-> obs]

\* start() from a stopped monitor whose polling thread has not ended (stop()
\* came back from join(timeout=5), or is still in it): start() does not look
\* at self._monitor_thread. The previous thread keeps its place in its loop or
\* in its cycle; start() calls the initial check.
Restart ==
    /\ mpc = "idle"
    /\ ~running
    /\ ppc \in {"loop", "job"}
    /\ parked = NoContext
    /\ check_count < MaxChecks
    /\ running' = TRUE
    /\ stop_event' = FALSE
    /\ jobs' = jobs + 1
    /\ mpc' = "initial"
    /\ invocations' = invocations + 1
    /\ notes' = <<>>
    /\ spc' = IF spc = "join" THEN "join_earlier" ELSE spc
    /\ parked' = Context("previous")
    /\ ppc' = "none"
    /\ owner' = "start"
    /\ cpc' = "call"
    /\ metrics' = NoMetrics
    /\ alerts' = <<>>
    /\ idx' = 0
    /\ success' = "none"
    /\ exc' = "none"
    /\ log' = <<>>
    /\ handled' = <<>>
    /\ obs' = NoObs
    /\ UNCHANGED <<config, counterVars, tpc, gpc, snap, rc, clock>>

\* The scheduler turns from the threads of one run to the polling thread of
\* the other: ppc and the cycle variables change places with parked.
Switch ==
    /\ parked # NoContext
    /\ parked' = Context(IF parked.role = "previous" THEN "current" ELSE "previous")
    /\ ppc' = parked.ppc
    /\ owner' = parked.owner
    /\ cpc' = parked.cpc
    /\ metrics' = parked.metrics
    /\ alerts' = parked.alerts
    /\ idx' = parked.idx
    /\ success' = parked.success
    /\ exc' = parked.exc
    /\ log' = parked.log
    /\ handled' = parked.handled
    /\ obs' = parked.obs
    /\ UNCHANGED <<config, running, stop_event, jobs, mpc, spc, counterVars, notes,
                   invocations, tpc, gpc, snap, rc, clock>>

\* The threads of the current run are the ones in ppc and the cycle variables.
CurrentRun == parked.role # "current"

\* start() and its initial cycle act on the variables of the current run; the
\* polling loop and the cycle act for whichever thread is scheduled; stop(),
\* _keep_alive and the except clauses touch no variable of a polling thread.
RestartNext ==
    \/ Restart
    \/ Switch
    \/ QuietCycle
    \/ MonitoringLoop
    \/ CurrentRun /\ Start
    \/ CurrentRun /\ StartThread
    \/ StartupExcept
    \/ KeepAlive
    \/ Stop
    \/ StopJoin
    \/ ShutdownExcept

\* The monitor of a quiet system, where start() may be called again while the
\* polling thread of the run before is still alive.
RestartSpec == Init /\ [][RestartNext]_vars

(* ------------------------------ uptime --------------------------------- *)

\* Time passes.
Tick ==
    /\ now < MaxTime
    /\ now' = now + 1
    /\ UNCHANGED <<config, running, stop_event, jobs, mpc, spc, ppc, counterVars,
                   cycleVars, notes, invocations, tpc, gpc, snap, rc, start_time,
                   parked>>

\* uptime = datetime.now() - self.start_time, of get_status() and of the
\* shutdown notification.
Uptime == now - start_time

UptimeNext ==
    \/ Tick
    \/ QuietCycle
    \/ Start
    \/ StartThread
    \/ StartupExcept
    \/ KeepAlive
    \/ MonitoringLoop
    \/ Stop
    \/ StopJoin
    \/ ShutdownExcept

\* The monitor of a quiet system while time passes.
UptimeSpec == Init /\ [][UptimeNext]_vars

\* The polling thread is scheduled, the interval of the job elapses and port
\* calls return (both clients carry timeouts): the steps of a cycle and of the
\* polling loop are taken once they stay enabled.
FairSpec == Spec /\ WF_vars(Cycle) /\ WF_vars(MonitoringLoop)

(* ----------------- threshold evaluation on its own --------------------- *)

\* Thresholds and samples over the whole valid range.
EvalThresholds == {1, 50, 100}
EvalPercent == {0, 1, 2, 49, 50, 51, 99, 100}

\* check_system() called on a freshly constructed monitor, as the unit tests do,
\* for any configuration of the thresholds.
EvalInit ==
    /\ config \in [cpu_threshold : EvalThresholds,
                   memory_threshold : EvalThresholds,
                   disk_threshold : EvalThresholds]
    /\ running = FALSE
    /\ stop_event = FALSE
    /\ jobs = 0
    /\ check_count = 0
    /\ alert_count = 0
    /\ remediation_count = 0
    /\ mpc = "idle"
    /\ spc = "idle"
    /\ ppc = "none"
    /\ owner = "test"
    /\ cpc = "call"
    /\ metrics = NoMetrics
    /\ alerts = <<>>
    /\ idx = 0
    /\ success = "none"
    /\ exc = "none"
    /\ log = <<>>
    /\ handled = <<>>
    /\ obs = NoObs
    /\ notes = <<>>
    /\ invocations = 1
    /\ tpc = NoThread
    /\ gpc = "idle"
    /\ snap = NoSnap
    /\ rc = NoCall
    /\ now = 0
    /\ start_time = 0
    /\ parked = NoContext

EvalGatherMetrics == Gather(EvalPercent)

EvalNext ==
    \/ CheckSystem
    \/ EvalGatherMetrics
    \/ CheckThresholds

EvalSpec == EvalInit /\ [][EvalNext]_vars

(* ------------------------------- claims -------------------------------- *)

\* The threshold configured for metric m.
ThresholdOf(m) ==
    CASE m = "CPU" -> config.cpu_threshold
      [] m = "Memory" -> config.memory_threshold
      [] m = "Disk" -> config.disk_threshold

\* The metrics of the current sample whose value exceeds its threshold.
Exceeded == {m \in Metrics : metrics[m] > ThresholdOf(m)}

Rank(m) == CASE m = "CPU" -> 1 [] m = "Memory" -> 2 [] m = "Disk" -> 3

\* An alert is being handled, or its handling has just ended (normally or by an
\* exception that left _handle_threshold_alert).
HasCurrent == idx >= 1 /\ idx <= Len(alerts)
AlertEnded == HasCurrent /\ cpc \in {"handled", "wrapper_except", "done"}

\* Port calls of the cycle in progress that concern metric m.
CallsFor(field, m) ==
    LET I == {i \in 1..Len(handled) : handled[i].metric = m}
        past == IF I = {} THEN 0
                ELSE IF field = "notified"
                     THEN handled[CHOOSE i \in I : TRUE].notified * Cardinality(I)
                     ELSE handled[CHOOSE i \in I : TRUE].remediated * Cardinality(I)
        present == IF HasCurrent /\ Current = m
               THEN IF field = "notified" THEN Len(Calls("send_alert"))
                    ELSE Len(Calls("trigger_remediation"))
               ELSE 0
    IN  past + present

\* Every alert of the cycle was notified once and remediated once, in order.
AllHandled ==
    /\ Len(handled) = Len(alerts)
    /\ \A i \in 1..Len(handled) :
          /\ handled[i].metric = alerts[i]
          /\ handled[i].notified = 1
          /\ handled[i].remediated = 1

C2_AlertCountPerCycle ==
    cpc = "done" => alert_count - obs.alert0 = Cardinality(Exceeded)

\* C3: when a cycle ends, every exceeded metric got exactly one alert
\* notification and one remediation request, and every other metric none.
C3_OnePerExceededMetric ==
    cpc = "done" =>
        \A m \in Metrics :
            /\ CallsFor("notified", m) = (IF m \in Exceeded THEN 1 ELSE 0)
            /\ CallsFor("remediated", m) = (IF m \in Exceeded THEN 1 ELSE 0)

\* C4: once the thresholds are checked, a metric has an alert exactly when its
\* sampled value is strictly greater than its threshold.
C4_ThresholdStrict ==
    (cpc \notin {"idle", "call", "gather", "thresholds"} /\ ~obs.sample_failed) =>
        \A m \in Metrics :
            (\E i \in 1..Len(alerts) : alerts[i] = m) <=> metrics[m] > ThresholdOf(m)

\* A value equal to its threshold raised no alert while a value above did.
C4_Witness ==
    /\ cpc = "for"
    /\ metrics["CPU"] = config.cpu_threshold
    /\ metrics["Memory"] = config.memory_threshold + 1
    /\ metrics["Disk"] = config.disk_threshold - 1
    /\ config.cpu_threshold # config.memory_threshold
    /\ alerts = <<"Memory">>

\* C5: within a cycle the alerts are handled one after the other in the order
\* CPU, Memory, Disk: the alerts already handled are exactly those before the
\* current one, and port calls are only ever in progress for the current one.
C5_SequentialInOrder ==
    /\ \A i, j \in 1..Len(alerts) : i < j => Rank(alerts[i]) < Rank(alerts[j])
    /\ \A i \in 1..Len(handled) : i <= Len(alerts) /\ handled[i].metric = alerts[i]
    /\ idx >= 1 => Len(handled) = idx - 1
    /\ log # <<>> => HasCurrent /\ \A i \in 1..Len(handled) :
                                      Rank(handled[i].metric) < Rank(Current)

\* The Disk alert is being remediated after CPU and Memory were handled.
C5_Witness ==
    /\ cpc = "send_success"
    /\ Current = "Disk"
    /\ Len(handled) = 2
    /\ handled[1].metric = "CPU"
    /\ handled[2].metric = "Memory"
    /\ Len(log) = 2

\* C6: when send_alert raised for an alert, the remediation request for that
\* alert is still made, no exception leaves the cycle and every alert of the
\* cycle is notified and remediated.
C6_AlertFailureIsolated ==
    /\ (AlertEnded /\ log[1].raised) => Len(Calls("trigger_remediation")) = 1
    /\ (cpc = "done" /\ obs.alert_raised) => ~obs.escaped /\ AllHandled

\* C7: when the handling of an alert ends, a truthy remediation result has added
\* exactly one to remediation_count and a success notification was sent; a falsy
\* result has left remediation_count unchanged and a failure notification naming
\* the issue type was sent.
C7_RemediationResult ==
    AlertEnded =>
        /\ success = "true" =>
              /\ remediation_count = obs.ev_rem0 + 1
              /\ \E i \in 1..Len(log) :
                    /\ log[i].call = "send_success_message"
                    /\ log[i].text = <<"triggered", IssueType(Current)>>
        /\ success = "false" =>
              /\ remediation_count = obs.ev_rem0
              /\ \E i \in 1..Len(log) :
                    /\ log[i].call = "send_error_message"
                    /\ log[i].text = <<"failed_to_trigger", IssueType(Current)>>

\* The second alert of a cycle was declined after the first was remediated.
C7_Witness ==
    /\ cpc = "handled"
    /\ idx = 2
    /\ success = "false"
    /\ remediation_count = obs.rem0 + 1
    /\ Len(log) = 3

\* C8: when trigger_remediation raised for an alert, remediation_count is
\* unchanged by that alert, a failure notification describing the fault is
\* sent, no exception leaves the cycle and every alert of the cycle is
\* notified and remediated.
C8_RemediationFaultIsolated ==
    /\ (AlertEnded /\ Len(log) >= 2 /\ log[2].raised) =>
          /\ remediation_count = obs.ev_rem0
          /\ Len(log) >= 3
          /\ log[3].call = "send_error_message"
    /\ (cpc = "done" /\ obs.fault) => ~obs.escaped /\ AllHandled

\* C9: when a notification sent after a remediation attempt raised, no
\* exception leaves the handling of the alert and every alert of the cycle is
\* notified and remediated.
C9_PostNotificationSwallowed ==
    (cpc = "done" /\ obs.post_raised) => ~obs.escaped /\ AllHandled

\* C10: a sampling failure ends only its own cycle. The polling thread leaves a
\* job only by returning to the head of its loop, it ends only through the
\* loop condition, the failed cycle changes neither alert_count nor
\* remediation_count, and unless the monitor is stopped the polling thread goes on
\* to execute another cycle.
C10_SamplingFailureIsolated ==
    /\ [][(ppc = "job" /\ ppc' # "job") => ppc' = "loop"]_vars
    /\ [][(ppc # "exited" /\ ppc' = "exited") =>
              (ppc = "loop" /\ (~running \/ stop_event))]_vars
    /\ [](obs.sample_failed => alert_count = obs.alert0
                               /\ remediation_count = obs.rem0)
    /\ (owner = "poll" /\ obs.sample_failed /\ check_count < MaxChecks)
          ~> (~running \/ (owner = "poll" /\ cpc = "gather"))

\* The polling thread's cycle failed to sample and the error notification
\* raised as well.
C10_Witness ==
    /\ owner = "poll"
    /\ cpc = "done"
    /\ obs.sample_failed
    /\ obs.wrapper_raised
    /\ running
    /\ check_count < MaxChecks

\* The notifications of one kind among those of the current run.
Notes(kind) == SelectSeq(notes, LAMBDA n : n = kind)

\* C11: start() on a monitor that is already running changes nothing: no job is
\* registered, no polling thread is started, no cycle is run and no startup
\* notification is sent; so there is never more than one job and never more than
\* one startup notification in a run.
C11_StartWhileRunningNoop ==
    /\ [][(tpc.pc = "idle" /\ tpc'.pc = "start_returned") => UNCHANGED monitorVars]_vars
    /\ [](jobs <= 1)
    /\ [](Len(Notes("startup")) <= 1)

\* A second start() has returned while the polling thread runs a cycle.
C11_Witness ==
    /\ tpc.pc = "start_returned"
    /\ running
    /\ ppc = "job"
    /\ cpc = "gather"
    /\ jobs = 1
    /\ notes = <<"startup">>

\* C12: the monitor enters Running only after the initial synchronous cycle of
\* start() has finished, and Stopping only from Running: while start() is in
\* its initial cycle the monitor is not running, and no stop() is under way
\* before start() has launched the periodic cycles.
C12_RunningAfterInitialCycle ==
    /\ mpc = "initial" => ~running
    /\ spc = "join" => mpc \notin {"initial", "launch"}

\* C13: once the monitor is stopped the schedule is empty, and a cycle begins
\* only in start() or, on the polling thread, while the monitor is running.
C13_NoCycleAfterStop ==
    /\ [](~running => jobs = 0)
    /\ [][(cpc = "idle" /\ cpc' = "call") =>
              \/ mpc = "idle" /\ mpc' = "initial"
              \/ running /\ ~stop_event /\ jobs > 0]_vars

\* stop() has returned while the polling thread is still inside a cycle.
C13_Witness ==
    /\ ~running
    /\ spc = "idle"
    /\ notes = <<"startup", "shutdown">>
    /\ ppc = "job"
    /\ cpc = "remediate"

\* C14: one run of the monitor sends at most one shutdown notification, from
\* however many threads stop() is called.
C14_AtMostOneShutdown == Len(Notes("shutdown")) <= 1

\* C15: get_status() changes nothing of the monitor, it can be called in every
\* state of the lifecycle, and a call during which no cycle runs returns the
\* current counters, so that two such calls return the same values.
C15_StatusReadOnly ==
    /\ [][gpc' # gpc => UNCHANGED monitorVars]_vars
    /\ [](gpc = "idle" => ENABLED GetStatusCall)
    /\ []((gpc = "return" /\ StillQuiet) =>
              /\ snap.check_count = check_count
              /\ snap.alert_count = alert_count
              /\ snap.remediation_count = remediation_count)

\* get_status() returns while stop() waits for the polling thread, after two
\* alerts of which one was remediated.
C15_Witness ==
    /\ gpc = "return"
    /\ StillQuiet
    /\ ~running
    /\ spc = "join"
    /\ snap.check_count = 2
    /\ snap.alert_count = 2
    /\ snap.remediation_count = 1

\* C16: the counters get_status() returns are those of one monitor state, so
\* the returned remediation_count never exceeds the returned alert_count.
C16_ConsistentSnapshot ==
    gpc = "return" => snap.remediation_count <= snap.alert_count

C18_NoDebounce ==
    (cpc = "done" /\ check_count >= 2 /\ ~obs.sample_failed) =>
        \A m \in Exceeded :
            /\ CallsFor("notified", m) = 1
            /\ CallsFor("remediated", m) = 1

C20_EndpointFallback ==
    /\ Len(rc.posts) <= 2
    /\ Len(rc.posts) >= 1 => rc.posts[1].url = "/api/remediation/execute"
    /\ Len(rc.posts) = 2 =>
          /\ rc.posts[2].url = "/remediate"
          /\ rc.posts[1].outcome.kind = "response"
          /\ rc.posts[1].outcome.status = 404
    /\ (rc.pc = "post" /\ Len(rc.posts) = 1) => rc.posts[1].outcome.status = 404
    /\ rc.pc = "returned" => rc.result # "none" /\ Len(rc.posts) >= 1

\* The new endpoint answered 404 and the legacy one succeeded.
C20_Witness ==
    /\ rc.pc = "returned"
    /\ Len(rc.posts) = 2
    /\ rc.posts[1].outcome.status = 404
    /\ rc.posts[2].outcome.body = "success"
    /\ rc.result = "True"

(* ------------------------- claims C21 .. C30 --------------------------- *)

\* The outcome of the attempt that ended the call in progress.
LastOutcome == rc.posts[Len(rc.posts)].outcome

\* C21: trigger_remediation maps each failure to its typed error: a timeout to
\* EriTimeoutError, a connection failure and HTTP 503 to ServiceUnavailableError,
\* HTTP 400, HTTP 404 on both endpoints and a 2xx body with success = false to
\* RemediationError.
C21_TypedErrors ==
    rc.pc = "returned" =>
        /\ LastOutcome.kind = "Timeout" => rc.result = "EriTimeoutError"
        /\ LastOutcome.kind = "ConnectionError" => rc.result = "ServiceUnavailableError"
        /\ LastOutcome.status = 503 => rc.result = "ServiceUnavailableError"
        /\ LastOutcome.status \in {400, 404} => rc.result = "RemediationError"
        /\ LastOutcome.body = "failure" => rc.result = "RemediationError"

\* C27: trigger_remediation never returns False: every call returns True or
\* raises RemediationError, ServiceUnavailableError or EriTimeoutError, whatever
\* the transport did, so the caller never sees a falsy result.
C27_TrueOrTypedError ==
    rc.pc = "returned" =>
        /\ rc.result \in {"True", "RemediationError", "ServiceUnavailableError",
                           "EriTimeoutError"}
        /\ rc.result = "True" <=>
              (LastOutcome.kind = "response" /\ LastOutcome.status < 400
               /\ LastOutcome.body # "failure")

\* The service answered 200 with success = false and the call raised.
C27_Witness ==
    /\ rc.pc = "returned"
    /\ LastOutcome.status = 200
    /\ LastOutcome.body = "failure"
    /\ rc.result = "RemediationError"

\* C25: check_count, alert_count and remediation_count are modified only by the
\* polling thread: while a cycle runs on the thread that called start(), the
\* counters still have the values they had when that cycle began.
C25_OnlyPollingThreadCounts ==
    (owner = "start" /\ cpc \notin {"idle", "call"}) =>
        /\ check_count = obs.check0
        /\ alert_count = obs.alert0
        /\ remediation_count = obs.rem0

\* C28: for the alert being handled, a failure notification is attempted only
\* when the remediation did not succeed: once trigger_remediation has returned
\* success, no send_error_message call is made for that alert, whatever the
\* success notification does.
C28_NoFailureNoteAfterSuccess ==
    (HasCurrent /\ success = "true") => Len(Calls("send_error_message")) = 0

\* C29: in one run the startup notification is never sent after the shutdown
\* notification, also when stop() is called during the initial cycle of start().
C29_StartupBeforeShutdown ==
    \A i, j \in 1..Len(notes) :
        (i < j /\ notes[i] = "shutdown") => notes[j] # "startup"

\* stop() has returned and start() has not been called since.
StopReturned == ~running /\ spc = "idle" /\ Len(Notes("shutdown")) = 1

\* C30: after stop() has returned the three counters do not change until
\* start() is called again, also when a cycle was in flight at stop().
C30_CountersFinalAfterStop == [][StopReturned => UNCHANGED counterVars]_vars

\* C22: stop() on a running monitor always terminates, also with a cycle in
\* flight that stays in a port call: the wait for the polling thread can always
\* end, the shutdown notification is then sent, stop() returns, and it leaves
\* the monitor stopped with an empty schedule.
C22_StopTerminates ==
    /\ [](spc \in {"join", "join_earlier"} => ENABLED StopJoin)
    /\ [](spc = "join" => (~running /\ stop_event /\ jobs = 0))
    /\ [][(spc = "join" /\ spc' \in {"idle", "shutdown_except"}) =>
              (notes' = Append(notes, "shutdown") /\ ~running' /\ jobs' = 0)]_vars
    /\ (spc # "idle") ~> (spc = "idle")

\* stop() has returned, the shutdown notification sent, while the polling
\* thread is still inside the send_alert call of its cycle.
C22_Witness ==
    /\ spc = "idle"
    /\ ~running
    /\ jobs = 0
    /\ Len(Notes("shutdown")) = 1
    /\ ppc = "job"
    /\ cpc = "send_alert"

\* C23: the startup and shutdown notifications are best effort: when the
\* notification raises, the except clause ends with start() in _keep_alive and
\* stop() returned, as after a notification that was delivered, and it changes
\* neither _running, nor the stop event, nor the schedule, nor the polling
\* thread.
C23_NotificationsBestEffort ==
    /\ [][(mpc = "startup_except" /\ mpc' # mpc) =>
              (mpc' = "keep_alive" /\ UNCHANGED <<running, stop_event, jobs, ppc, spc>>)]_vars
    /\ [][(spc = "shutdown_except" /\ spc' # spc) =>
              (spc' = "idle" /\ UNCHANGED <<running, stop_event, jobs, ppc, mpc>>)]_vars
    /\ [][(mpc = "launch" /\ mpc' # mpc) =>
              (mpc' \in {"keep_alive", "startup_except"} /\ ppc' = "loop"
               /\ running' = running)]_vars
    /\ [][(spc = "join" /\ spc' = "shutdown_except") =>
              (~running' /\ stop_event' /\ jobs' = 0)]_vars
    /\ [](mpc = "startup_except" => ppc # "none")

\* The startup notification raised: start() is in its except clause, the
\* monitor is running and the polling thread has been started.
C23_Witness ==
    /\ mpc = "startup_except"
    /\ running
    /\ ppc = "loop"
    /\ notes = <<"startup">>

\* start() is called on a stopped monitor.
StartCalled == mpc = "idle" /\ mpc' = "initial"

\* C24: start_time is set once, at start(), and never changed afterwards, so
\* that the uptime is measured from the moment start() was called: the uptime
\* is zero when start() is called and start_time stays as it is in every other
\* step.
C24_UptimeSinceStart ==
    [][IF StartCalled THEN Uptime' = 0 ELSE start_time' = start_time]_vars

\* Polling threads that are alive, and evaluation cycles that are under way.
PollingThreads ==
    (IF ppc \in {"loop", "job"} THEN 1 ELSE 0)
    + (IF parked.ppc \in {"loop", "job"} THEN 1 ELSE 0)
CyclesUnderWay ==
    (IF cpc # "idle" THEN 1 ELSE 0) + (IF parked.cpc # "idle" THEN 1 ELSE 0)

\* C26: at most one polling thread is alive and no two evaluation cycles are
\* under way at the same time, across every sequence of start() and stop(),
\* also when start() follows a stop() whose bounded wait ended with the polling
\* thread still inside a cycle.
C26_OnePollingTask == PollingThreads <= 1 /\ CyclesUnderWay <= 1

====
